---- MODULE Spec2Model ----
(***************************************************************************)
(* LetsbonkSDK: transaction builders (transactions/builders),              *)
(* setupTransaction (utils/transaction.ts) and                             *)
(* sendAndConfirmTransactionWithRetry (transactions/utils).                *)
(*                                                                         *)
(* Spec: one build call (any of the four builders) against a chain on      *)
(* which the payer's token account exists or not.                          *)
(* SubmitSpec: one sendAndConfirmTransactionWithRetry call on a bundle a   *)
(* build returned; FairSubmitSpec adds that every await settles.           *)
(* SdkSpec: one public build operation (builder, lookup-table fetch, v0    *)
(* message) followed by executeTransaction, each answering with a result.  *)
(* CalcSpec: one call of a pure helper: address derivation, account-meta   *)
(* list, instruction payload, slippage.                                    *)
(***************************************************************************)
EXTENDS Integers, Sequences, FiniteSets, TLC

\* ------------------------------------------------------------------ bounds
MaxRetriesBound == 3      \* maxRetries is drawn from -1..MaxRetriesBound
MaxAmount == 2            \* amounts are drawn from -1..MaxAmount

\* --------------------------------------------------------- program constants
BASE_DELAY_MS == 1000               \* 1000 * attempt
OP_SET_COMPUTE_UNIT_LIMIT == 2      \* Buffer.from([2])
OP_SET_COMPUTE_UNIT_PRICE == 3      \* Buffer.from([3])
UNIT_PRICE == 7                     \* default of ../constants (value abstract)
UNIT_BUDGET == 9                    \* default of ../constants (value abstract)

VARIABLES
    commitment,         \* SDK configuration: the commitment option, if given
    tokenAccountExists, \* chain: payer's token account for the mint exists
    req,                \* the build call: builder name and its arguments
    built,              \* what the build call returned or threw
    variant,            \* which sendAndConfirmTransactionWithRetry is called
    txKind,             \* "legacy" (Transaction) or "versioned"
    maxRetries,         \* argument of the submission
    attempt,            \* loop variable of the submission
    pc,                 \* position of the call
    signature,          \* local `signature` (0 = unset, k = returned by send k)
    caught,             \* the `error` bound by the catch clause
    result,             \* what the submission returned or threw
    net,                \* what the transport was asked and answered
    sdk,                \* what the public operation (LetsBonkSDK) returned
    calc                \* a pure helper's call: name, input, output

vars == <<commitment, tokenAccountExists, req, built, variant, txKind, maxRetries,
          attempt, pc, signature, caught, result, net, sdk, calc>>

buildVars == <<req, built, sdk, calc>>
subVars == <<variant, txKind, maxRetries, attempt, signature, caught,
             result, net>>

\* ------------------------------------------------------------ optional values
\* `undefined` is the empty set, a present value v is {v}.
Opt(S) == {{}} \cup {{v} : v \in S}
Undefined == {}
Some(v) == {v}
Get(o) == CHOOSE v \in o : TRUE
\* a ?? b
Coalesce(o, d) == IF o = Undefined THEN d ELSE Get(o)

\* ------------------------------------------------------------------ encoding
\* n little-endian bytes of v, two's complement (typed-array store wraps).
RECURSIVE LE(_, _)
LE(v, n) == IF n = 0 THEN <<>> ELSE <<v % 256>> \o LE(v \div 256, n - 1)

\* ---------------------------------------------------------------- instructions
\* A TransactionInstruction: its kind, the account it creates, funds or
\* closes, its numeric payload and its textual arguments and account references.
Ix(kind, account, data, refs) ==
    [kind |-> kind, account |-> account, data |-> data, refs |-> refs]

NoAccount == "none"
PayerTokenAccount == "payerTokenAccount"   \* payer's token account for the mint
WsolTokenAccount == "wsolTokenAccount"     \* the temporary wrapped-SOL account

\* The arguments of a build call.
Ops == {"create", "buy", "sell", "initializeAndBuy"}
Urls == {"", " ", "https://u", " https://u "}
Creators == {"payer", "creator"}
Amounts == -1 .. MaxAmount
FeeValues == {-1, 0, 5}
PriorityFees == Opt([unitPrice : Opt(FeeValues), unitLimit : Opt(FeeValues)])
\* The awaited step of a build that fails, if any.
BuildSteps == {"upload", "blockhash", "launchIx", "tokenAccount", "wsolAccount"}

\* What a build call returns (ok) or throws (~ok); calls lists the
\* collaborator calls it made, in order.
Built(instructions, signers, calls) ==
    [ok |-> TRUE, error |-> "none", feePayer |-> "payer",
     instructions |-> instructions, signers |-> signers, calls |-> calls]
Thrown(error, calls) ==
    [ok |-> FALSE, error |-> error, feePayer |-> "none",
     instructions |-> <<>>, signers |-> <<>>, calls |-> calls]
NotBuilt == Thrown("none", <<>>)

\* Mutant: the caller's priority fees are ignored.
setupTransactionDefaults(priorityFees) ==
    << Ix("computeBudget", NoAccount,
          <<OP_SET_COMPUTE_UNIT_PRICE>> \o LE(UNIT_PRICE, 8), <<>>),
       Ix("computeBudget", NoAccount,
          <<OP_SET_COMPUTE_UNIT_LIMIT>> \o LE(UNIT_BUDGET, 4), <<>>) >>

\* Mutant: `||` in place of `??`, a given 0 is replaced by the default.
setupTransactionFalsyDefault(priorityFees) ==
    LET given(o, d) == IF o = Undefined \/ Get(o) = 0 THEN d ELSE Get(o)
        unitPrice == IF priorityFees = Undefined THEN UNIT_PRICE
                     ELSE given(Get(priorityFees).unitPrice, UNIT_PRICE)
        unitBudget == IF priorityFees = Undefined THEN UNIT_BUDGET
                      ELSE given(Get(priorityFees).unitLimit, UNIT_BUDGET)
    IN << Ix("computeBudget", NoAccount,
             <<OP_SET_COMPUTE_UNIT_PRICE>> \o LE(unitPrice, 8), <<>>),
          Ix("computeBudget", NoAccount,
             <<OP_SET_COMPUTE_UNIT_LIMIT>> \o LE(unitBudget, 4), <<>>) >>

\* utils/transaction.ts: the two compute-budget instructions.
setupTransaction(priorityFees) ==
    LET unitPrice == IF priorityFees = Undefined THEN UNIT_PRICE
                     ELSE Coalesce(Get(priorityFees).unitPrice, UNIT_PRICE)
        unitBudget == IF priorityFees = Undefined THEN UNIT_BUDGET
                      ELSE Coalesce(Get(priorityFees).unitLimit, UNIT_BUDGET)
    IN << Ix("computeBudget", NoAccount,
             <<OP_SET_COMPUTE_UNIT_PRICE>> \o LE(unitPrice, 8), <<>>),
          Ix("computeBudget", NoAccount,
             <<OP_SET_COMPUTE_UNIT_LIMIT>> \o LE(unitBudget, 4), <<>>) >>

\* utils/token: the creation instruction of the payer's token account when the
\* account does not exist, none when it does.
createOrGetTokenAccount(exists) ==
    IF exists THEN <<>>
    ELSE << Ix("createTokenAccount", PayerTokenAccount, <<>>, <<"payer", "mint">>) >>

\* utils/token: create, fund and synchronise the temporary wrapped-SOL account.
createTemporaryWSOLAccount(amount) ==
    << Ix("wsolCreate", WsolTokenAccount, <<>>, <<"payer">>),
       Ix("wsolFund", WsolTokenAccount, <<amount>>, <<"payer">>),
       Ix("wsolSync", WsolTokenAccount, <<>>, <<>>) >>

\* utils/token: close the temporary account, lamports back to the owner.
getCloseWSOLInstruction(account, owner) ==
    Ix("closeAccount", account, <<>>, <<owner>>)

\* instructions: the swap instructions.
buildBuyInstruction(baseTokenAccount, wsolTokenAccount, amountIn, minimumAmountOut) ==
    Ix("buy", NoAccount, <<amountIn, minimumAmountOut>>,
       <<"payer", baseTokenAccount, wsolTokenAccount>>)
buildSellInstruction(baseTokenAccount, wsolTokenAccount, amountIn, minimumAmountOut) ==
    Ix("sell", NoAccount, <<amountIn, minimumAmountOut>>,
       <<"payer", baseTokenAccount, wsolTokenAccount>>)

\* An amount the wire format can hold: an unsigned 64-bit integer.  Only the
\* lower end is drawn by the model's amounts.
IsU64(v) == v >= 0
\* The encoder refuses an amount that is no unsigned 64-bit integer.
Encodable(amountIn, minimumAmountOut) == IsU64(amountIn) /\ IsU64(minimumAmountOut)

\* transactions/utils: the launch (initialize) instruction.
createAnchorInitializeInstruction(payer, creator, uri) ==
    Ix("launch", "mint", <<>>, <<payer, creator, uri>>)

\* external_url && external_url.trim() !== ''
Trim(s) == IF s = " " THEN "" ELSE IF s = " https://u " THEN "https://u" ELSE s

\* Mutant: the test without the trim, a whitespace-only url counts as supplied.
HasExternalUrlNoTrim(external_url) ==
    /\ external_url # Undefined
    /\ Get(external_url) # ""

HasExternalUrl(external_url) ==
    /\ external_url # Undefined
    /\ Get(external_url) # ""
    /\ Trim(Get(external_url)) # ""

\* ------------------------------------------------------------------- builders
\* fail names the awaited step that throws, "none" when every step succeeds;
\* exists is the token account's presence on chain when it is looked up.

\* Mutant: the token account is created before the launch creates the mint.
buildCreateTokenTransactionAccountFirst(external_url, priorityFees, exists, fail) ==
    LET upload == ~HasExternalUrl(external_url)
        c1 == IF upload THEN <<"uploadTokenMetadata">> ELSE <<>>
        uri == IF upload THEN "ipfs://uploaded" ELSE Get(external_url)
        c4 == c1 \o <<"getLatestBlockhash", "getAccountInfo", "createAnchorInitializeInstruction">>
        transaction == setupTransaction(priorityFees)
                       \o createOrGetTokenAccount(exists)
                       \o << createAnchorInitializeInstruction("payer", "payer", uri) >>
    IN  IF upload /\ fail = "upload" THEN Thrown("upload", c1)
        ELSE IF fail \in {"blockhash", "launchIx", "tokenAccount"} THEN Thrown(fail, c4)
        ELSE Built(transaction, <<>>, c4)

\* Mutant: uploadResult.success is not looked at, the launch is built anyway.
buildCreateTokenTransactionUnchecked(external_url, priorityFees, exists, fail) ==
    LET upload == ~HasExternalUrl(external_url)
        c1 == IF upload THEN <<"uploadTokenMetadata">> ELSE <<>>
        uri == IF upload THEN "ipfs://uploaded" ELSE Get(external_url)
        c4 == c1 \o <<"getLatestBlockhash", "createAnchorInitializeInstruction", "getAccountInfo">>
        transaction == setupTransaction(priorityFees)
                       \o << createAnchorInitializeInstruction("payer", "payer", uri) >>
                       \o createOrGetTokenAccount(exists)
    IN  IF fail \in {"blockhash", "launchIx", "tokenAccount"} THEN Thrown(fail, c4)
        ELSE Built(transaction, <<>>, c4)

buildCreateTokenTransaction(external_url, priorityFees, exists, fail) ==
    LET upload == ~HasExternalUrl(external_url)
        c1 == IF upload THEN <<"uploadTokenMetadata">> ELSE <<>>
        uri == IF upload THEN "ipfs://uploaded" ELSE Get(external_url)
        c2 == c1 \o <<"getLatestBlockhash">>
        c3 == c2 \o <<"createAnchorInitializeInstruction">>
        c4 == c3 \o <<"getAccountInfo">>
        transaction == setupTransaction(priorityFees)
                       \o << createAnchorInitializeInstruction("payer", "payer", uri) >>
                       \o createOrGetTokenAccount(exists)
    IN  IF upload /\ fail = "upload" THEN Thrown("upload", c1)
        ELSE IF fail = "blockhash" THEN Thrown("blockhash", c2)
        ELSE IF fail = "launchIx" THEN Thrown("launchIx", c3)
        ELSE IF fail = "tokenAccount" THEN Thrown("tokenAccount", c4)
        ELSE Built(transaction, <<>>, c4)

\* Mutant: the close instruction is added before the swap.
buildBuyTransactionCloseFirst(amountIn, minimumAmountOut, priorityFees, exists, fail) ==
    LET c == <<"getLatestBlockhash", "getAccountInfo", "createTemporaryWSOLAccount">>
        transaction ==
            setupTransaction(priorityFees)
            \o createOrGetTokenAccount(exists)
            \o createTemporaryWSOLAccount(amountIn)
            \o << getCloseWSOLInstruction(WsolTokenAccount, "payer") >>
            \o << buildBuyInstruction(PayerTokenAccount, WsolTokenAccount,
                                      amountIn, minimumAmountOut) >>
    IN  IF fail \in {"blockhash", "tokenAccount", "wsolAccount"}
        THEN Thrown(fail, c)
        ELSE Built(transaction, <<>>, c)

\* Mutant: a failed token-account lookup is swallowed and the bundle is
\* returned without the account's creation.
buildBuyTransactionSwallows(amountIn, minimumAmountOut, priorityFees, exists, fail) ==
    LET c1 == <<"getLatestBlockhash">>
        c2 == c1 \o <<"getAccountInfo">>
        c3 == c2 \o <<"createTemporaryWSOLAccount">>
        transaction ==
            setupTransaction(priorityFees)
            \o (IF fail = "tokenAccount" THEN <<>> ELSE createOrGetTokenAccount(exists))
            \o createTemporaryWSOLAccount(amountIn)
            \o << buildBuyInstruction(PayerTokenAccount, WsolTokenAccount,
                                      amountIn, minimumAmountOut) >>
            \o << getCloseWSOLInstruction(WsolTokenAccount, "payer") >>
    IN  IF fail = "blockhash" THEN Thrown("blockhash", c1)
        ELSE IF fail = "wsolAccount" THEN Thrown("wsolAccount", c3)
        ELSE IF ~Encodable(amountIn, minimumAmountOut) THEN Thrown("encoding", c3)
        ELSE Built(transaction, <<>>, c3)

buildBuyTransaction(amountIn, minimumAmountOut, priorityFees, exists, fail) ==
    LET c1 == <<"getLatestBlockhash">>
        c2 == c1 \o <<"getAccountInfo">>
        c3 == c2 \o <<"createTemporaryWSOLAccount">>
        transaction ==
            setupTransaction(priorityFees)
            \o createOrGetTokenAccount(exists)
            \o createTemporaryWSOLAccount(amountIn)
            \o << buildBuyInstruction(PayerTokenAccount, WsolTokenAccount,
                                      amountIn, minimumAmountOut) >>
            \o << getCloseWSOLInstruction(WsolTokenAccount, "payer") >>
    IN  IF fail = "blockhash" THEN Thrown("blockhash", c1)
        ELSE IF fail = "tokenAccount" THEN Thrown("tokenAccount", c2)
        ELSE IF fail = "wsolAccount" THEN Thrown("wsolAccount", c3)
        ELSE IF ~Encodable(amountIn, minimumAmountOut) THEN Thrown("encoding", c3)
        ELSE Built(transaction, <<>>, c3)

\* Mutant: the sell builder sends the transaction it has assembled.
buildSellTransactionSubmits(amountIn, minimumAmountOut, priorityFees, exists, fail) ==
    LET c == <<"getLatestBlockhash", "getAccountInfo", "createTemporaryWSOLAccount">>
        transaction ==
            setupTransaction(priorityFees)
            \o createOrGetTokenAccount(exists)
            \o createTemporaryWSOLAccount(0)
            \o << buildSellInstruction(PayerTokenAccount, WsolTokenAccount,
                                       amountIn, minimumAmountOut) >>
            \o << getCloseWSOLInstruction(WsolTokenAccount, "payer") >>
    IN  IF fail \in {"blockhash", "tokenAccount", "wsolAccount"} THEN Thrown(fail, c)
        ELSE IF ~Encodable(amountIn, minimumAmountOut) THEN Thrown("encoding", c)
        ELSE Built(transaction, <<>>, c \o <<"sendTransaction", "confirmTransaction">>)

buildSellTransaction(amountIn, minimumAmountOut, priorityFees, exists, fail) ==
    LET c1 == <<"getLatestBlockhash">>
        c2 == c1 \o <<"getAccountInfo">>
        c3 == c2 \o <<"createTemporaryWSOLAccount">>
        transaction ==
            setupTransaction(priorityFees)
            \o createOrGetTokenAccount(exists)
            \o createTemporaryWSOLAccount(0)
            \o << buildSellInstruction(PayerTokenAccount, WsolTokenAccount,
                                       amountIn, minimumAmountOut) >>
            \o << getCloseWSOLInstruction(WsolTokenAccount, "payer") >>
    IN  IF fail = "blockhash" THEN Thrown("blockhash", c1)
        ELSE IF fail = "tokenAccount" THEN Thrown("tokenAccount", c2)
        ELSE IF fail = "wsolAccount" THEN Thrown("wsolAccount", c3)
        ELSE IF ~Encodable(amountIn, minimumAmountOut) THEN Thrown("encoding", c3)
        ELSE Built(transaction, <<>>, c3)

\* Mutant: the buy is appended when the amount is zero as well (>= 0n).
buildInitializeAndBuyZeroBuys(creator, external_url, buyAmountLamports, minimumAmountOutRaw, priorityFees, exists, fail) ==
    LET launch == buildCreateTokenTransaction(external_url, priorityFees, exists, fail)
        c5 == launch.calls \o <<"createTemporaryWSOLAccount">>
        transaction ==
            launch.instructions
            \o createTemporaryWSOLAccount(buyAmountLamports)
            \o << buildBuyInstruction(PayerTokenAccount, WsolTokenAccount,
                                      buyAmountLamports, minimumAmountOutRaw) >>
            \o << getCloseWSOLInstruction(WsolTokenAccount, "payer") >>
    IN  IF ~launch.ok THEN launch
        ELSE IF buyAmountLamports >= 0
             THEN IF fail = "wsolAccount" THEN Thrown("wsolAccount", c5)
                  ELSE Built(transaction, <<"payer", "baseMint">>, c5)
             ELSE Built(launch.instructions, <<"payer", "baseMint">>, launch.calls)

\* Mutant: the buy branch returns the temporary account's keypair as a signer.
buildInitializeAndBuyExtraSigner(creator, external_url, buyAmountLamports, minimumAmountOutRaw, priorityFees, exists, fail) ==
    LET launch == buildCreateTokenTransaction(external_url, priorityFees, exists, fail)
        c5 == launch.calls \o <<"createTemporaryWSOLAccount">>
        transaction ==
            launch.instructions
            \o createTemporaryWSOLAccount(buyAmountLamports)
            \o << buildBuyInstruction(PayerTokenAccount, WsolTokenAccount,
                                      buyAmountLamports, minimumAmountOutRaw) >>
            \o << getCloseWSOLInstruction(WsolTokenAccount, "payer") >>
    IN  IF ~launch.ok THEN launch
        ELSE IF buyAmountLamports # 0 /\ buyAmountLamports > 0
             THEN IF fail = "wsolAccount" THEN Thrown("wsolAccount", c5)
                  ELSE Built(transaction, <<"payer", "baseMint", "wsolKeypair">>, c5)
             ELSE Built(launch.instructions, <<"payer", "baseMint">>, launch.calls)

\* creator is the caller's argument; minimumAmountOutRaw is what the
\* calculateTokensReceive estimate gives for the amount.
buildInitializeAndBuyTransaction(creator, external_url, buyAmountLamports, minimumAmountOutRaw, priorityFees, exists, fail) ==
    LET launch == buildCreateTokenTransaction(external_url, priorityFees, exists, fail)
        c5 == launch.calls \o <<"createTemporaryWSOLAccount">>
        transaction ==
            launch.instructions
            \o createTemporaryWSOLAccount(buyAmountLamports)
            \o << buildBuyInstruction(PayerTokenAccount, WsolTokenAccount,
                                      buyAmountLamports, minimumAmountOutRaw) >>
            \o << getCloseWSOLInstruction(WsolTokenAccount, "payer") >>
    IN  IF ~launch.ok THEN launch
        ELSE IF buyAmountLamports # 0 /\ buyAmountLamports > 0
             THEN IF fail = "wsolAccount" THEN Thrown("wsolAccount", c5)
                  ELSE Built(transaction, <<"payer", "baseMint">>, c5)
             ELSE Built(launch.instructions, <<"payer", "baseMint">>, launch.calls)

\* ------------------------------------------------------------ build actions
Request(op, creator, external_url, amountIn, minimumAmountOut, priorityFees, fail) ==
    [op |-> op, creator |-> creator, external_url |-> external_url,
     amountIn |-> amountIn, minimumAmountOut |-> minimumAmountOut,
     priorityFees |-> priorityFees, fail |-> fail]
NoRequest == Request("none", "payer", Undefined, 0, 0, Undefined, "none")

NoError == [type |-> "none", attempt |-> 0]
NoResult == [status |-> "none", sig |-> 0, error |-> NoError]
NoNet == [attempts |-> 0, signs |-> 0, sends |-> 0, accepted |-> 0,
          confirms |-> 0, raised |-> 0, timeouts |-> 0, status |-> "none",
          waits |-> <<>>, level |-> "none"]

\* config.commitment: absent, or one of the levels a caller configures.
CommitmentConfigs == Opt({"confirmed", "finalized"})
\* DEFAULT_CONFIG.commitment
DEFAULT_COMMITMENT == "confirmed"
\* this.commitment, after { ...DEFAULT_CONFIG, ...config }
ConfiguredCommitment(config) == Coalesce(config, DEFAULT_COMMITMENT)
\* connection.confirmTransaction(signature, 'confirmed'); {commitment: 'confirmed'}
ConfirmLevel == "confirmed"

\* No public operation has returned; no helper has been called.
NoSdk == [stage |-> "none", alt |-> "none", success |-> FALSE, thrown |-> FALSE,
          data |-> {}, error |-> {}]
NoCalc == [fn |-> "none", input |-> <<>>, output |-> <<>>]

SubmissionIdle ==
    /\ variant = "none" /\ txKind = "none" /\ maxRetries = 0 /\ attempt = 0
    /\ signature = 0 /\ caught = NoError /\ result = NoResult /\ net = NoNet

Init ==
    /\ commitment \in CommitmentConfigs
    /\ tokenAccountExists \in BOOLEAN
    /\ req = NoRequest
    /\ built = NotBuilt
    /\ pc = "idle"
    /\ sdk = NoSdk
    /\ calc = NoCalc
    /\ SubmissionIdle

Finish(r) ==
    /\ built' = r
    /\ pc' = IF r.ok THEN "built" ELSE "buildFailed"
    /\ UNCHANGED <<commitment, tokenAccountExists, subVars, sdk, calc>>

BuildCreateToken ==
    /\ pc = "idle"
    /\ \E url \in Opt(Urls), pf \in PriorityFees, fail \in BuildSteps \cup {"none"} :
          /\ req' = Request("create", "payer", url, 0, 0, pf, fail)
          /\ Finish(buildCreateTokenTransaction(url, pf, tokenAccountExists, fail))

BuildBuy ==
    /\ pc = "idle"
    /\ \E amountIn \in Amounts, minOut \in 0 .. 1, pf \in PriorityFees,
          fail \in BuildSteps \cup {"none"} :
          /\ req' = Request("buy", "payer", Undefined, amountIn, minOut, pf, fail)
          /\ Finish(buildBuyTransaction(amountIn, minOut, pf, tokenAccountExists, fail))

BuildSell ==
    /\ pc = "idle"
    /\ \E amountIn \in Amounts, minOut \in 0 .. 1, pf \in PriorityFees,
          fail \in BuildSteps \cup {"none"} :
          /\ req' = Request("sell", "payer", Undefined, amountIn, minOut, pf, fail)
          /\ Finish(buildSellTransaction(amountIn, minOut, pf, tokenAccountExists, fail))

BuildInitializeAndBuy ==
    /\ pc = "idle"
    /\ \E creator \in Creators, url \in Opt(Urls), amount \in Amounts,
          minOut \in 0 .. 1, pf \in PriorityFees, fail \in BuildSteps \cup {"none"} :
          /\ req' = Request("initializeAndBuy", creator, url, amount, minOut, pf, fail)
          /\ Finish(buildInitializeAndBuyTransaction(creator, url, amount, minOut, pf,
                                                     tokenAccountExists, fail))

Next == BuildCreateToken \/ BuildBuy \/ BuildSell \/ BuildInitializeAndBuy

Spec == Init /\ [][Next]_vars

\* ----------------------------------------------------------------- submission
\* sendAndConfirmTransactionWithRetry.  The transport (connection.sendTransaction,
\* connection.confirmTransaction, web3.js sendAndConfirmTransaction) answers each
\* call with one of the outcomes it can produce:
\*   send:     returns a signature | throws a send error
\*   confirm:  returns status ok | returns status with err (the program rejected
\*             the transaction) | throws a confirmation timeout
\*   sendAndConfirmTransaction: returns the signature | throws the send error, the
\*             timeout, or an error for a status with err.
Variants == {"legacyOnly", "legacyOrVersioned"}
TxKinds == {"legacy", "versioned"}

Error(type, k) == [type |-> type, attempt |-> k]

\* maxRetries: any number a caller passes, negative and zero included.
RetryCounts == -1 .. MaxRetriesBound
\* Mutant: a do-while loop, the first attempt is made whatever the bound.
LoopConditionAtLeastOnce(a, n) == a = 1 \/ a <= n
\* for (...; attempt <= maxRetries; ...)
LoopCondition(a, n) == a <= n
\* if (attempt === maxRetries)
IsLastAttempt(a, n) == a = n
\* Mutant: the same wait after every failed attempt.
BackoffDelayConstant(a) == BASE_DELAY_MS
\* setTimeout(resolve, 1000 * attempt)
BackoffDelay(a) == BASE_DELAY_MS * a
\* throw new Error('Transaction failed after all retries')
GenericError == [status |-> "error", sig |-> 0, error |-> Error("Generic", 0)]
\* Mutant: return null instead of the signature.
ReturnedNull(sig) == NoResult
\* return signature
Returned(sig) == [status |-> "signature", sig |-> sig, error |-> NoError]
\* Mutant: throw the generic error instead of the caught one.
RethrownGeneric(error) == GenericError
\* throw error
Rethrown(error) == [status |-> "error", sig |-> 0, error |-> error]

Execute ==
    /\ pc = "built"
    /\ \E v \in Variants, k \in TxKinds, n \in RetryCounts :
          /\ v = "legacyOnly" => k = "legacy"
          /\ variant' = v
          /\ txKind' = k
          /\ maxRetries' = n
    /\ attempt' = 1
    /\ pc' = "loop"
    /\ UNCHANGED <<commitment, tokenAccountExists, buildVars, signature, caught, result, net>>

\* The loop header: enter the try block, or fall out of the loop.
LoopHead ==
    /\ pc = "loop"
    /\ IF LoopCondition(attempt, maxRetries)
       THEN /\ pc' = "try"
            /\ net' = [net EXCEPT !.attempts = @ + 1]
            /\ UNCHANGED result
       ELSE /\ pc' = "failed"
            /\ result' = GenericError
            /\ UNCHANGED net
    /\ UNCHANGED <<commitment, tokenAccountExists, buildVars, variant, txKind, maxRetries,
                   attempt, signature, caught>>

\* transaction.sign(signers); signature = await connection.sendTransaction(...)
SendVersioned ==
    /\ pc = "try"
    /\ txKind = "versioned"
    /\ \E answer \in {"signature", "throws"} :
          IF answer = "signature"
          THEN /\ signature' = attempt
               /\ net' = [net EXCEPT !.signs = @ + 1, !.sends = @ + 1,
                                     !.accepted = @ + 1, !.status = "none"]
               /\ pc' = "sent"
               /\ UNCHANGED caught
          ELSE /\ caught' = Error("SendError", attempt)
               /\ net' = [net EXCEPT !.signs = @ + 1, !.sends = @ + 1,
                                     !.raised = @ + 1, !.status = "none"]
               /\ pc' = "caught"
               /\ UNCHANGED signature
    /\ UNCHANGED <<commitment, tokenAccountExists, buildVars, variant, txKind, maxRetries,
                   attempt, result>>

\* await connection.confirmTransaction(signature, 'confirmed'); ... return signature
ConfirmVersioned ==
    /\ pc = "sent"
    /\ \E answer \in {"ok", "err", "timeout"} :
          IF answer = "timeout"
          THEN /\ caught' = Error("ConfirmationTimeout", attempt)
               /\ net' = [net EXCEPT !.confirms = @ + 1, !.raised = @ + 1,
                                     !.timeouts = @ + 1, !.status = "timeout",
                                     !.level = ConfirmLevel]
               /\ pc' = "caught"
               /\ UNCHANGED result
          ELSE /\ net' = [net EXCEPT !.confirms = @ + 1, !.status = answer,
                                     !.level = ConfirmLevel]
               /\ result' = Returned(signature)
               /\ pc' = "confirmed"
               /\ UNCHANGED caught
    /\ UNCHANGED <<commitment, tokenAccountExists, buildVars, variant, txKind, maxRetries,
                   attempt, signature>>

\* signature = await sendAndConfirmTransaction(connection, transaction, signers,
\* {skipPreflight, commitment: 'confirmed'}); ... return signature
SendAndConfirmLegacy ==
    /\ pc = "try"
    /\ txKind = "legacy"
    /\ \E answer \in {"ok", "sendError", "err", "timeout"} :
          CASE answer = "ok" ->
                 /\ signature' = attempt
                 /\ net' = [net EXCEPT !.signs = @ + 1, !.sends = @ + 1,
                                       !.accepted = @ + 1, !.confirms = @ + 1,
                                       !.status = "ok", !.level = ConfirmLevel]
                 /\ result' = Returned(signature')
                 /\ pc' = "confirmed"
                 /\ UNCHANGED caught
            [] answer = "sendError" ->
                 /\ caught' = Error("SendError", attempt)
                 /\ net' = [net EXCEPT !.signs = @ + 1, !.sends = @ + 1,
                                       !.raised = @ + 1, !.status = "none"]
                 /\ pc' = "caught"
                 /\ UNCHANGED <<signature, result>>
            [] answer = "err" ->
                 /\ caught' = Error("ProgramRejection", attempt)
                 /\ net' = [net EXCEPT !.signs = @ + 1, !.sends = @ + 1,
                                       !.accepted = @ + 1, !.confirms = @ + 1,
                                       !.raised = @ + 1, !.status = "err",
                                       !.level = ConfirmLevel]
                 /\ pc' = "caught"
                 /\ UNCHANGED <<signature, result>>
            [] answer = "timeout" ->
                 /\ caught' = Error("ConfirmationTimeout", attempt)
                 /\ net' = [net EXCEPT !.signs = @ + 1, !.sends = @ + 1,
                                       !.accepted = @ + 1, !.confirms = @ + 1,
                                       !.raised = @ + 1, !.timeouts = @ + 1,
                                       !.status = "timeout", !.level = ConfirmLevel]
                 /\ pc' = "caught"
                 /\ UNCHANGED <<signature, result>>
    /\ UNCHANGED <<commitment, tokenAccountExists, buildVars, variant, txKind, maxRetries, attempt>>

\* catch (error) { if (attempt === maxRetries) throw error; await setTimeout(...) }
CatchBlock ==
    /\ pc = "caught"
    /\ IF IsLastAttempt(attempt, maxRetries)
       THEN /\ result' = Rethrown(caught)
            /\ pc' = "failed"
            /\ UNCHANGED net
       ELSE /\ net' = [net EXCEPT !.waits = Append(@, BackoffDelay(attempt))]
            /\ pc' = "backoff"
            /\ UNCHANGED result
    /\ UNCHANGED <<commitment, tokenAccountExists, buildVars, variant, txKind, maxRetries,
                   attempt, signature, caught>>

\* Mutant: the timer's promise is never resolved.
BackoffNeverResolves ==
    /\ pc = "backoff"
    /\ UNCHANGED vars

\* Mutant: the bundle is built anew before the next attempt, against the
\* chain as it is by then.
BackoffElapsedRebuilds ==
    /\ pc = "backoff"
    /\ attempt' = attempt + 1
    /\ pc' = "loop"
    /\ built' = buildBuyTransaction(req.amountIn, req.minimumAmountOut, req.priorityFees,
                                    ~tokenAccountExists, "none")
    /\ UNCHANGED <<commitment, tokenAccountExists, req, sdk, calc, variant, txKind, maxRetries,
                   signature, caught, result, net>>

\* The timer fires: attempt++
BackoffElapsed ==
    /\ pc = "backoff"
    /\ attempt' = attempt + 1
    /\ pc' = "loop"
    /\ UNCHANGED <<commitment, tokenAccountExists, buildVars, variant, txKind, maxRetries,
                   signature, caught, result, net>>

\* A submission of a bundle that a build returned.
SubmitInit ==
    /\ commitment \in CommitmentConfigs
    /\ tokenAccountExists \in BOOLEAN
    /\ \E amountIn \in 1 .. MaxAmount :
          /\ req = Request("buy", "payer", Undefined, amountIn, 0, Undefined, "none")
          /\ built = buildBuyTransaction(amountIn, 0, Undefined, tokenAccountExists, "none")
    /\ pc = "built"
    /\ sdk = NoSdk
    /\ calc = NoCalc
    /\ SubmissionIdle

SubmitNext ==
    \/ Execute
    \/ LoopHead
    \/ SendVersioned
    \/ ConfirmVersioned
    \/ SendAndConfirmLegacy
    \/ CatchBlock
    \/ BackoffElapsed

SubmitSpec == SubmitInit /\ [][SubmitNext]_vars

\* Every transport call returns or throws, and the timer fires.
FairSubmitSpec == SubmitSpec /\ WF_vars(SubmitNext)

\* ------------------------------------------------------------- public layer
\* LetsBonkSDK: buildInitialize / buildBuy / buildSell / buildInitializeAndBuy
\* and executeTransaction.  A build runs the builder, fetches the address
\* lookup table and compiles a versioned (v0) message; every operation answers
\* with a result record {success, data | error}.
ALT_ACCOUNT_ADDRESS == "altAccount"
AltOutcomes == {"present", "absent", "fetchFails"}

\* Mutant: a failing lookup-table fetch is passed on to the caller.
fetchAltAccountRethrows(outcome) ==
    [ok |-> outcome # "fetchFails",
     table |-> IF outcome = "present" THEN Some(ALT_ACCOUNT_ADDRESS) ELSE Undefined]

\* The table when it is on the network, null when it is absent or the fetch fails.
fetchAltAccount(outcome) ==
    [ok |-> TRUE,
     table |-> IF outcome = "present" THEN Some(ALT_ACCOUNT_ADDRESS) ELSE Undefined]

\* The compiled v0 message: the instructions, and one lookup per table given.
compileToV0Message(instructions, table) ==
    [version |-> "v0", instructions |-> instructions,
     addressTableLookups |-> IF table = Undefined THEN <<>> ELSE <<Get(table)>>]

Success(data) == [success |-> TRUE, thrown |-> FALSE, data |-> Some(data), error |-> Undefined]
\* Mutant: a failure result that carries no error.
FailureWithoutError(error) == [success |-> FALSE, thrown |-> FALSE, data |-> Undefined, error |-> Undefined]
Failure(error) == [success |-> FALSE, thrown |-> FALSE, data |-> Undefined, error |-> Some(error)]

\* The builder a public build operation delegates to.
CallBuilder(q, exists) ==
    CASE q.op = "create" ->
           buildCreateTokenTransaction(q.external_url, q.priorityFees, exists, q.fail)
      [] q.op = "buy" ->
           buildBuyTransaction(q.amountIn, q.minimumAmountOut, q.priorityFees, exists, q.fail)
      [] q.op = "sell" ->
           buildSellTransaction(q.amountIn, q.minimumAmountOut, q.priorityFees, exists, q.fail)
      [] q.op = "initializeAndBuy" ->
           buildInitializeAndBuyTransaction(q.creator, q.external_url, q.amountIn, q.minimumAmountOut, q.priorityFees, exists, q.fail)

\* The result of a public build: the builder's error, or the v0 transaction.
buildResult(r, outcome) ==
    LET alt == fetchAltAccount(outcome) IN
    IF ~r.ok THEN Failure(r.error)
    ELSE IF ~alt.ok THEN Failure("altFetch")
    ELSE Success([transaction |-> compileToV0Message(r.instructions, alt.table),
                  signers |-> r.signers])

\* The result of executeTransaction: the signature, or the error thrown.
executeResult(res) ==
    IF res.status = "signature" THEN Success([signature |-> res.sig])
    ELSE Failure(res.error.type)

SdkRequests ==
    { Request(op, "payer", url, amountIn, 0, Undefined, fail) :
        op \in {"create", "buy", "sell", "initializeAndBuy"},
        url \in {Undefined, Some("https://u")},
        amountIn \in 0 .. 1,
        fail \in {"none", "upload", "blockhash"} }

SdkBuild ==
    /\ pc = "idle"
    /\ \E q \in SdkRequests, outcome \in AltOutcomes :
          LET r == CallBuilder(q, tokenAccountExists)
              answer == buildResult(r, outcome)
          IN  /\ req' = q
              /\ built' = r
              /\ sdk' = [stage |-> "build", alt |-> outcome] @@ answer
              /\ pc' = IF answer.success THEN "built" ELSE "buildFailed"
    /\ UNCHANGED <<commitment, tokenAccountExists, subVars, calc>>

SdkExecuteReturn ==
    /\ pc \in {"confirmed", "failed"}
    /\ sdk' = [stage |-> "execute", alt |-> sdk.alt] @@ executeResult(result)
    /\ pc' = "returned"
    /\ UNCHANGED <<commitment, tokenAccountExists, req, built, calc, subVars>>

SdkNext ==
    \/ SdkBuild
    \/ Execute
    \/ LoopHead
    \/ SendVersioned
    \/ ConfirmVersioned
    \/ SendAndConfirmLegacy
    \/ CatchBlock
    \/ BackoffElapsed
    \/ SdkExecuteReturn

SdkSpec == Init /\ [][SdkNext]_vars

\* -------------------------------------------------------- address derivation
\* PDAUtils: derive(programId, seeds) tries the bumps from 255 downward and
\* returns the first for which the hashed address is off the curve.  The hash
\* is not computed: `valid` is the set of bumps it accepts for the given
\* program id and seeds, and the address is the triple it was derived from.
MAX_BUMP == 255
ProgramIds == {"program", "otherProgram"}
SeedLists == { <<"vault_auth_seed">>, <<"pool", "mint", "wsol">>,
               <<"pool", "wsol", "mint">>, <<"pool_vault", "pool", "mint">> }
ValidBumps == { {}, {0}, {MAX_BUMP}, {MAX_BUMP - 1}, {0, MAX_BUMP - 1},
                {17, 200, 253}, 0 .. MAX_BUMP, 0 .. (MAX_BUMP - 1) }

createProgramAddress(programId, seeds, bump) ==
    [programId |-> programId, seeds |-> seeds, bump |-> bump]
NoAddress == createProgramAddress("none", <<>>, -1)
DerivationError ==
    [ok |-> FALSE, error |-> "DerivationError", address |-> NoAddress, bump |-> -1]
Derived(address, bump) ==
    [ok |-> TRUE, error |-> "none", address |-> address, bump |-> bump]

\* The bump at which the loop `for bump = 255; bump >= 0; bump--` stops: the
\* valid bump above which every bump was tried and refused.
FirstHitDownward(valid) ==
    {b \in 0 .. MAX_BUMP : b \in valid /\ \A c \in (b + 1) .. MAX_BUMP : c \notin valid}

\* Mutant: the search runs upward from 0 and returns the lowest valid bump.
deriveUpward(programId, seeds, valid) ==
    IF valid = {} THEN DerivationError
    ELSE LET bump == CHOOSE b \in valid : \A c \in valid : b <= c
         IN  Derived(createProgramAddress(programId, seeds, bump), bump)

derive(programId, seeds, valid) ==
    LET hit == FirstHitDownward(valid) IN
    IF hit = {} THEN DerivationError
    ELSE Derived(createProgramAddress(programId, seeds, Get(hit)), Get(hit))

Call(fn, input, output) == [fn |-> fn, input |-> input, output |-> output]
CalcFrame == UNCHANGED <<commitment, tokenAccountExists, req, built, sdk, pc, subVars>>

Derive ==
    /\ calc = NoCalc
    /\ \E programId \in ProgramIds, seeds \in SeedLists, valid \in ValidBumps :
          calc' = Call("derive",
                       [programId |-> programId, seeds |-> seeds, valid |-> valid],
                       << derive(programId, seeds, valid) >>)
    /\ CalcFrame

\* A second call with the inputs of the first.
DeriveAgain ==
    /\ calc.fn = "derive"
    /\ Len(calc.output) = 1
    /\ calc' = [calc EXCEPT !.output =
                   Append(@, derive(calc.input.programId, calc.input.seeds,
                                    calc.input.valid))]
    /\ CalcFrame

\* ---------------------------------------------------------- account metas
\* IDL: the accounts of buyExactIn and of sellExactIn, in their order.
buyExactInAccounts ==
    << "payer", "authority", "globalConfig", "platformConfig", "poolState",
       "userBaseToken", "userQuoteToken", "baseVault", "quoteVault",
       "baseTokenMint", "quoteTokenMint", "baseTokenProgram",
       "quoteTokenProgram", "eventAuthority", "program" >>
\* Mutant: the sell lists the quote token account before the base one.
sellExactInAccountsSwapped ==
    << "payer", "authority", "globalConfig", "platformConfig", "poolState",
       "userQuoteToken", "userBaseToken", "baseVault", "quoteVault",
       "baseTokenMint", "quoteTokenMint", "baseTokenProgram",
       "quoteTokenProgram", "eventAuthority", "program" >>
sellExactInAccounts ==
    << "payer", "authority", "globalConfig", "platformConfig", "poolState",
       "userBaseToken", "userQuoteToken", "baseVault", "quoteVault",
       "baseTokenMint", "quoteTokenMint", "baseTokenProgram",
       "quoteTokenProgram", "eventAuthority", "program" >>
\* Mutant: the launch lists the vaults before the mints.
initializeAccountsVaultsFirst ==
    << "payer", "creator", "globalConfig", "platformConfig", "authority",
       "poolState", "baseVault", "quoteVault", "baseMint", "quoteMint",
       "metadataAccount", "baseTokenProgram", "quoteTokenProgram",
       "metadataProgram", "systemProgram", "rentProgram", "eventAuthority",
       "program" >>
\* IDL: the accounts of initialize, in their order.
initializeAccounts ==
    << "payer", "creator", "globalConfig", "platformConfig", "authority",
       "poolState", "baseMint", "quoteMint", "baseVault", "quoteVault",
       "metadataAccount", "baseTokenProgram", "quoteTokenProgram",
       "metadataProgram", "systemProgram", "rentProgram", "eventAuthority",
       "program" >>
IdlAccounts(kind) ==
    IF kind = "buy" THEN buyExactInAccounts
    ELSE IF kind = "sell" THEN sellExactInAccounts
    ELSE initializeAccounts
Roles == {buyExactInAccounts[i] : i \in 1 .. Len(buyExactInAccounts)}

\* A context gives every role its address; addresses may coincide.
Addresses == {"addr", "other"}
Contexts ==
    { [r \in Roles |-> IF r \in S THEN "other" ELSE "addr"] :
        S \in {T \in SUBSET Roles : Cardinality(T) <= 2} }

\* Mutant: the accounts whose address is "other" are listed first.
accountsByValue(kind, context) ==
    LET roles == IdlAccounts(kind)
        first == SelectSeq(roles, LAMBDA r : context[r] = "other")
        rest == SelectSeq(roles, LAMBDA r : context[r] # "other")
        order == first \o rest
    IN  [i \in 1 .. Len(order) |-> [role |-> order[i], pubkey |-> context[order[i]]]]

\* The account-meta list of a buy or sell instruction: one entry per account
\* of the IDL, in the IDL's order, holding the address the context gives it.
accounts(kind, context) ==
    LET roles == IdlAccounts(kind)
    IN  [i \in 1 .. Len(roles) |-> [role |-> roles[i], pubkey |-> context[roles[i]]]]

AccountMetas ==
    /\ calc = NoCalc
    /\ \E kind \in {"buy", "sell"}, context \in Contexts :
          calc' = Call("accounts", [kind |-> kind, context |-> context],
                       accounts(kind, context))
    /\ CalcFrame

\* ------------------------------------------------------ instruction payloads
\* IDL: discriminators and argument lists.  The payload is the discriminator
\* followed by the arguments in the IDL's order, as the borsh coder writes
\* them: u64 as 8 little-endian bytes, u8 as one byte, a string as its byte
\* length in 4 little-endian bytes followed by its UTF-8 bytes, an enum as
\* the variant's index in one byte followed by the variant's fields.
buyExactInDiscriminator == <<250, 234, 13, 123, 213, 156, 19, 236>>
sellExactInDiscriminator == <<149, 39, 222, 155, 211, 124, 152, 26>>
initializeDiscriminator == <<175, 175, 109, 31, 13, 152, 155, 237>>
\* Mutant: minimumAmountOut is written before amountIn.
buyExactInArgsSwapped == <<"minimumAmountOut", "amountIn", "shareFeeRate">>
buyExactInArgs == <<"amountIn", "minimumAmountOut", "shareFeeRate">>
sellExactInArgs == <<"amountIn", "minimumAmountOut", "shareFeeRate">>
ConstantCurveU64s == <<"supply", "totalBaseSell", "totalQuoteFundRaising">>
VestingParamsU64s == <<"totalLockedAmount", "cliffPeriod", "unlockPeriod">>
CURVE_CONSTANT == 0

Discriminator(kind) ==
    IF kind = "buy" THEN buyExactInDiscriminator ELSE sellExactInDiscriminator
IdlArgs(kind) == IF kind = "buy" THEN buyExactInArgs ELSE sellExactInArgs

RECURSIVE encodeU64s(_, _)
encodeU64s(names, args) ==
    IF names = <<>> THEN <<>>
    ELSE LE(args[Head(names)], 8) \o encodeU64s(Tail(names), args)

\* UTF-8 of one code point below 2048, and of a string of such code points.
Utf8(cp) ==
    IF cp < 128 THEN <<cp>> ELSE <<192 + (cp \div 64), 128 + (cp % 64)>>
RECURSIVE Utf8Bytes(_)
Utf8Bytes(str) == IF str = <<>> THEN <<>> ELSE Utf8(Head(str)) \o Utf8Bytes(Tail(str))
encodeString(str) == LE(Len(Utf8Bytes(str)), 4) \o Utf8Bytes(str)

encodeSwap(kind, args) == Discriminator(kind) \o encodeU64s(IdlArgs(kind), args)

encodeLaunch(args) ==
    initializeDiscriminator
    \o LE(args.decimals, 1)
    \o encodeString(args.name) \o encodeString(args.symbol) \o encodeString(args.uri)
    \o LE(CURVE_CONSTANT, 1) \o encodeU64s(ConstantCurveU64s, args) \o LE(args.migrateType, 1)
    \o encodeU64s(VestingParamsU64s, args)

\* Strings are sequences of code points: "", "A", "BC", "e-acute".
Strings == { <<>>, <<65>>, <<66, 67>>, <<233>> }
U64Samples == {0, 1, 256, 65539}
SwapArgs ==
    [amountIn : U64Samples, minimumAmountOut : U64Samples, shareFeeRate : U64Samples]
LaunchArgs ==
    { [decimals |-> d, name |-> n, symbol |-> sy, uri |-> u,
       supply |-> c[1], totalBaseSell |-> c[2], totalQuoteFundRaising |-> c[3],
       migrateType |-> m,
       totalLockedAmount |-> v[1], cliffPeriod |-> v[2], unlockPeriod |-> v[3]] :
        d \in {6, 9}, n \in Strings, sy \in Strings, u \in Strings,
        c \in {<<1, 2, 3>>, <<3, 1, 2>>}, m \in {0, 1},
        v \in {<<0, 0, 0>>, <<5, 6, 7>>} }

EncodeSwap ==
    /\ calc = NoCalc
    /\ \E kind \in {"buy", "sell"}, args \in SwapArgs :
          calc' = Call("encodeSwap", [kind |-> kind, args |-> args], encodeSwap(kind, args))
    /\ CalcFrame

EncodeLaunch ==
    /\ calc = NoCalc
    /\ \E args \in LaunchArgs :
          calc' = Call("encodeLaunch", [kind |-> "launch", args |-> args], encodeLaunch(args))
    /\ CalcFrame

\* ------------------------------------------------------------------ slippage
\* calculateSlippageBuy / calculateSlippageSell(expectedAmount, slippageBps):
\* the expected amount less slippageBps ten-thousandths of it, in integers.
\* The tests fix the result where the haircut is whole; where it is not, the
\* two integer forms of the haircut differ by one and either may be the one
\* computed.
BPS_DENOMINATOR == 10000
\* floor(e * f / 10000), the product taken on the two parts of
\* e = hi * 10000 + lo so that it stays within 32-bit integers.
ScaledDown(e, f) ==
    (e \div BPS_DENOMINATOR) * f + (((e % BPS_DENOMINATOR) * f) \div BPS_DENOMINATOR)
\* amount - amount * bps / 10000n
HaircutSubtracted(e, s) == e - ScaledDown(e, s)
\* amount * (10000n - bps) / 10000n
HaircutScaled(e, s) == ScaledDown(e, BPS_DENOMINATOR - s)
calculateSlippage(e, s) == {HaircutSubtracted(e, s), HaircutScaled(e, s)}

\* Pairs whose products stay within 32-bit integers.
SlippageInputs ==
    ({0, 1, 3, 9999, 10001, 200000} \X {0, 1, 500, 1000, 9999, 10000})
    \cup ({1000000} \X {0, 500, 1000})

Slippage ==
    /\ calc = NoCalc
    /\ \E fn \in {"calculateSlippageBuy", "calculateSlippageSell"}, in \in SlippageInputs :
          \E out \in calculateSlippage(in[1], in[2]) :
              calc' = Call(fn, [expectedAmount |-> in[1], slippageBps |-> in[2]], out)
    /\ CalcFrame

LaunchRoles == {initializeAccounts[i] : i \in 1 .. Len(initializeAccounts)}
LaunchContexts ==
    { [r \in LaunchRoles |-> IF r \in S THEN "other" ELSE "addr"] :
        S \in {{}} \cup {{a, b} : a, b \in LaunchRoles} }

LaunchAccountMetas ==
    /\ calc = NoCalc
    /\ \E context \in LaunchContexts :
          calc' = Call("launchAccounts", [kind |-> "launch", context |-> context],
                       accounts("launch", context))
    /\ CalcFrame

CalcNext ==
    \/ Derive
    \/ DeriveAgain
    \/ AccountMetas
    \/ EncodeSwap
    \/ EncodeLaunch
    \/ Slippage
    \/ LaunchAccountMetas

CalcSpec == Init /\ [][CalcNext]_vars

\* ------------------------------------------------------- claims: submission
Done == pc \in {"confirmed", "failed"}
Pending == pc \in {"loop", "try", "sent", "caught", "backoff"}
TransportErrors == {"SendError", "ConfirmationTimeout", "ProgramRejection"}

\* C1: when attempts 1..k-1 fail and attempt k succeeds (1 <= k <= maxRetries),
\* the call returns the signature of attempt k after exactly k attempts, and
\* once it has returned no further attempt is made.
C1_RetrySuccess ==
    /\ [](pc = "confirmed" =>
            /\ attempt \in 1 .. maxRetries
            /\ net.attempts = attempt
            /\ net.raised = attempt - 1
            /\ result.status = "signature"
            /\ result.sig = attempt)
    /\ [][pc = "confirmed" => (pc' = "confirmed" /\ net' = net /\ result' = result)]_vars

\* Two failures, then success on the third attempt.
C1_Witness ==
    /\ pc = "confirmed"
    /\ maxRetries = 3
    /\ net.attempts = 3
    /\ net.raised = 2
    /\ result.sig = 3

\* C2: when every attempt fails and maxRetries = n >= 1, exactly n attempts are
\* made and the call throws the error the transport raised on attempt n: not
\* the generic error, not an empty result.
C2_RetryExhaustion ==
    (pc = "failed" /\ maxRetries >= 1) =>
        /\ net.attempts = maxRetries
        /\ net.raised = maxRetries
        /\ result.status = "error"
        /\ result.error = caught
        /\ result.error.attempt = maxRetries
        /\ result.error.type \in TransportErrors

\* Three failed attempts out of three.
C2_Witness ==
    /\ pc = "failed"
    /\ maxRetries = 3
    /\ net.raised = 3
    /\ result.error = Error("SendError", 3)

\* C3: a submission in which a send succeeded and its confirmation timed out
\* ends with a confirmation-timeout outcome: never a plain success, never a
\* plain send failure.
C3_TimeoutDistinct ==
    (Done /\ net.timeouts > 0) =>
        /\ result.status = "error"
        /\ result.error.type = "ConfirmationTimeout"

\* C4: a transaction that the network reports back with an execution error is
\* not returned as a success: the submission fails with the program's error.
C4_RejectionSurfaces ==
    (Done /\ net.status = "err") =>
        /\ pc = "failed"
        /\ result.status = "error"
        /\ result.error.type = "ProgramRejection"

\* C5: every submission that enters Pending reaches Confirmed (a signature is
\* returned) or Failed (an error is thrown) after at most maxRetries attempts;
\* both are terminal and the result is never empty.  (A negative bound is a
\* bound of no attempt.)
C5_Terminates ==
    /\ Pending ~> Done
    /\ [](Done =>
            /\ net.attempts <= (IF maxRetries < 0 THEN 0 ELSE maxRetries)
            /\ (pc = "confirmed") <=> (result.status = "signature" /\ result.sig >= 1)
            /\ (pc = "failed") <=> (result.status = "error"
                                    /\ result.error.type # "none"))
    /\ [][Done => UNCHANGED vars]_vars

\* A submission that failed after retrying.
C5_Witness ==
    /\ pc = "failed"
    /\ maxRetries >= 2
    /\ net.attempts = maxRetries
    /\ Len(net.waits) = maxRetries - 1

\* --------------------------------------------------------- claims: builders
RECURSIVE FromLE(_)
\* The unsigned integer a little-endian byte sequence encodes.
FromLE(bytes) == IF bytes = <<>> THEN 0 ELSE Head(bytes) + 256 * FromLE(Tail(bytes))

KindsOf(ixs) == [i \in 1 .. Len(ixs) |-> ixs[i].kind]
Positions(ixs, kinds) == {i \in 1 .. Len(ixs) : ixs[i].kind \in kinds}
WsolSetupKinds == {"wsolCreate", "wsolFund", "wsolSync"}
\* The kinds of a launch bundle: compute-budget pair, launch, and the token
\* account's creation when the account is absent.
LaunchKinds ==
    <<"computeBudget", "computeBudget", "launch">>
    \o (IF tokenAccountExists THEN <<>> ELSE <<"createTokenAccount">>)
BuyKinds == <<"wsolCreate", "wsolFund", "wsolSync", "buy", "closeAccount">>

ExpectedUnitPrice ==
    IF req.priorityFees = Undefined \/ Get(req.priorityFees).unitPrice = Undefined
    THEN UNIT_PRICE ELSE Get(Get(req.priorityFees).unitPrice)
ExpectedUnitLimit ==
    IF req.priorityFees = Undefined \/ Get(req.priorityFees).unitLimit = Undefined
    THEN UNIT_BUDGET ELSE Get(Get(req.priorityFees).unitLimit)

\* C6: every bundle any builder returns starts with set-compute-unit-price
\* (opcode 3) and then set-compute-unit-limit (opcode 2), carrying the caller's
\* priority fee when given and the default otherwise; there is no other
\* compute-budget instruction and nothing precedes the two.  (A negative value
\* is carried wrapped to the field's width, see C27.)
C6_ComputeBudgetPrefix ==
    built.ok =>
        LET ixs == built.instructions IN
        /\ Len(ixs) >= 2
        /\ Positions(ixs, {"computeBudget"}) = {1, 2}
        /\ Len(ixs[1].data) = 9
        /\ ixs[1].data[1] = 3
        /\ ExpectedUnitPrice >= 0 => FromLE(Tail(ixs[1].data)) = ExpectedUnitPrice
        /\ Len(ixs[2].data) = 5
        /\ ixs[2].data[1] = 2
        /\ ExpectedUnitLimit >= 0 => FromLE(Tail(ixs[2].data)) = ExpectedUnitLimit

\* A sell bundle built with the caller's price and the default limit.
C6_Witness ==
    /\ built.ok
    /\ req.op = "sell"
    /\ req.priorityFees = Some([unitPrice |-> Some(5), unitLimit |-> Undefined])

\* C7: in a buy or sell bundle every setup instruction of the temporary
\* wrapped-SOL account stands before the swap, there is exactly one close
\* instruction, it closes that same account, it stands after the swap and it is
\* the last instruction: the account is created and closed in the same bundle.
C7_TemporaryAccount ==
    (built.ok /\ req.op \in {"buy", "sell"}) =>
        LET ixs == built.instructions
            swap == Positions(ixs, {"buy", "sell"})
            setup == Positions(ixs, WsolSetupKinds)
            close == Positions(ixs, {"closeAccount"})
        IN  /\ Cardinality(swap) = 1
            /\ Positions(ixs, {"wsolCreate"}) # {}
            /\ close = {Len(ixs)}
            /\ \A i \in swap :
                  /\ ixs[i].kind = req.op
                  /\ ixs[i].refs[3] = WsolTokenAccount
                  /\ \A j \in setup : j < i
                  /\ \A j \in close : j > i
            /\ \A j \in setup \cup close : ixs[j].account = WsolTokenAccount

\* A buy bundle that also creates the payer's token account.
C7_Witness ==
    /\ built.ok
    /\ req.op = "buy"
    /\ req.amountIn = 1
    /\ ~tokenAccountExists
    /\ Len(built.instructions) = 8

\* C8: initialize-and-buy with a non-zero buy amount returns the launch bundle
\* followed by the temporary account's setup, the buy and the close.
C8_LaunchThenBuy ==
    (built.ok /\ req.op = "initializeAndBuy" /\ req.amountIn # 0) =>
        KindsOf(built.instructions) = LaunchKinds \o BuyKinds

\* The same for the amounts the code takes as a buy: those above zero.
LaunchThenBuyWhenPositive ==
    (built.ok /\ req.op = "initializeAndBuy" /\ req.amountIn > 0) =>
        KindsOf(built.instructions) = LaunchKinds \o BuyKinds

\* C9: initialize-and-buy with buy amount 0 returns exactly two signers, payer
\* and mint, and the launch bundle alone: no setup, no swap, no close.
C9_ZeroBuyAmount ==
    (built.ok /\ req.op = "initializeAndBuy" /\ req.amountIn = 0) =>
        /\ built.signers = <<"payer", "baseMint">>
        /\ KindsOf(built.instructions) = LaunchKinds
        /\ Positions(built.instructions, WsolSetupKinds \cup {"buy", "sell", "closeAccount"}) = {}

\* An initialize-only bundle.
C9_Witness ==
    /\ built.ok
    /\ req.op = "initializeAndBuy"
    /\ req.amountIn = 0
    /\ Len(built.instructions) \in {3, 4}

\* The bundle the same call returns with another buy amount.
WithAmount(a) ==
    buildInitializeAndBuyTransaction(req.creator, req.external_url, a,
                                     req.minimumAmountOut, req.priorityFees,
                                     tokenAccountExists, "none")

\* C10 as stated: for the same payer and mint the signer set of a zero-amount
\* build is strictly shorter than that of a non-zero-amount build.
C10_ZeroStrictlyShorter ==
    (built.ok /\ req.op = "initializeAndBuy" /\ req.amountIn = 0) =>
        \A a \in Amounts \ {0} :
            Len(built.signers) < Len(WithAmount(a).signers)

\* C10 as amended: the signer set of a zero-amount build is the signer set of a
\* non-zero-amount build: payer and mint in both.
C10_SameSigners ==
    (built.ok /\ req.op = "initializeAndBuy" /\ req.amountIn = 0) =>
        \A a \in Amounts \ {0} :
            /\ WithAmount(a).ok
            /\ WithAmount(a).signers = built.signers
            /\ Len(built.signers) = 2

\* A zero-amount build next to which a positive-amount build exists.
C10_Witness ==
    /\ built.ok
    /\ req.op = "initializeAndBuy"
    /\ req.amountIn = 0
    /\ \E a \in Amounts : a > 0 /\ Len(WithAmount(a).instructions) > Len(built.instructions)

\* C11: a launch build calls the metadata upload if and only if external_url is
\* missing, empty or whitespace-only; with a url supplied no upload is made and
\* the uri of the launch instruction is the supplied string, character for
\* character.
BlankUrls == {"", " "}
Called(name) == \E i \in 1 .. Len(built.calls) : built.calls[i] = name
C11_UploadBypass ==
    (pc # "idle" /\ req.op \in {"create", "initializeAndBuy"}) =>
        LET blank == req.external_url = Undefined \/ Get(req.external_url) \in BlankUrls
        IN  /\ Called("uploadTokenMetadata") <=> blank
            /\ (built.ok /\ ~blank) =>
                  \A i \in Positions(built.instructions, {"launch"}) :
                      built.instructions[i].refs[3] = Get(req.external_url)
            /\ built.ok => Cardinality(Positions(built.instructions, {"launch"})) = 1

\* A launch built from a url with surrounding blanks, without an upload.
C11_Witness ==
    /\ built.ok
    /\ req.op = "create"
    /\ req.external_url = Some(" https://u ")
    /\ ~Called("uploadTokenMetadata")

\* C12: when the address lookup table is absent or its fetch fails, a public
\* build fails only if the builder itself failed; otherwise it returns a
\* versioned (v0) transaction with the builder's instructions and no
\* address-table lookups, and that transaction can be executed.
C12_AltFallback ==
    (sdk.stage = "build" /\ sdk.alt \in {"absent", "fetchFails"}) =>
        /\ sdk.success <=> built.ok
        /\ ~built.ok => sdk.error = Some(built.error)
        /\ sdk.success =>
              LET tx == Get(sdk.data).transaction IN
              /\ tx.version = "v0"
              /\ tx.addressTableLookups = <<>>
              /\ tx.instructions = built.instructions
              /\ pc # "buildFailed"

\* A transaction built while the table's fetch failed, sent as a versioned
\* transaction and confirmed.
C12_Witness ==
    /\ pc = "returned"
    /\ sdk.stage = "execute"
    /\ sdk.alt = "fetchFails"
    /\ sdk.success
    /\ txKind = "versioned"
    /\ net.status = "ok"

C14_EncodingErrors ==
    (pc # "idle" /\ req.op \in {"buy", "sell", "initializeAndBuy"} /\ ~IsU64(req.amountIn)) =>
        /\ ~built.ok
        /\ built.instructions = <<>>
        /\ req.fail = "none" => built.error = "encoding"
        /\ net = NoNet

\* The same for the two builders that hand the amount to the encoder on every
\* path: buy and sell.
EncodingErrorsInBuyAndSell ==
    (pc # "idle" /\ req.op \in {"buy", "sell"} /\ ~IsU64(req.amountIn)) =>
        /\ ~built.ok
        /\ built.instructions = <<>>
        /\ req.fail = "none" => built.error = "encoding"
        /\ net = NoNet

C16_Order ==
    << "payer", "authority", "globalConfig", "platformConfig", "poolState",
       "userBaseToken", "userQuoteToken", "baseVault", "quoteVault",
       "baseTokenMint", "quoteTokenMint", "baseTokenProgram",
       "quoteTokenProgram", "eventAuthority", "program" >>
C16_StructuralOrder ==
    calc.fn = "accounts" =>
        LET kind == calc.input.kind
            context == calc.input.context
            out == calc.output
        IN  /\ Len(out) = 15
            /\ \A i \in 1 .. 15 :
                  /\ out[i].role = C16_Order[i]
                  /\ out[i].pubkey = context[C16_Order[i]]
            /\ \A r \in Roles, a \in Addresses :
                  LET other == accounts(kind, [context EXCEPT ![r] = a])
                  IN  /\ Len(other) = 15
                      /\ \A i \in 1 .. 15 :
                            /\ other[i].role = out[i].role
                            /\ other[i] # out[i] => (C16_Order[i] = r /\ a # context[r])
                            /\ (C16_Order[i] = r) => other[i].pubkey = a

\* A sell whose base and quote token accounts have another address than the
\* remaining thirteen accounts, which share one.
C16_Witness ==
    /\ calc.fn = "accounts"
    /\ calc.input.kind = "sell"
    /\ {r \in Roles : calc.input.context[r] = "other"} = {"userBaseToken", "userQuoteToken"}
    /\ calc.output[6].pubkey = "other"
    /\ calc.output[5].pubkey = "addr"

\* A reference decoder, written from the wire format and not from the encoder.
U64At(bytes, at) == FromLE(SubSeq(bytes, at, at + 7))
RECURSIVE DecodeUtf8(_)
DecodeUtf8(bytes) ==
    IF bytes = <<>> THEN <<>>
    ELSE IF bytes[1] < 128
         THEN <<bytes[1]>> \o DecodeUtf8(Tail(bytes))
         ELSE <<(bytes[1] - 192) * 64 + (bytes[2] - 128)>>
              \o DecodeUtf8(SubSeq(bytes, 3, Len(bytes)))
StringAt(bytes, at) ==
    LET n == FromLE(SubSeq(bytes, at, at + 3))
    IN  [value |-> DecodeUtf8(SubSeq(bytes, at + 4, at + 3 + n)), next |-> at + 4 + n]
decodeSwap(bytes) ==
    [amountIn |-> U64At(bytes, 9), minimumAmountOut |-> U64At(bytes, 17),
     shareFeeRate |-> U64At(bytes, 25)]
decodeLaunch(bytes) ==
    LET name == StringAt(bytes, 10)
        symbol == StringAt(bytes, name.next)
        uri == StringAt(bytes, symbol.next)
        c == uri.next
    IN  [decimals |-> bytes[9], name |-> name.value, symbol |-> symbol.value,
         uri |-> uri.value,
         supply |-> U64At(bytes, c + 1), totalBaseSell |-> U64At(bytes, c + 9),
         totalQuoteFundRaising |-> U64At(bytes, c + 17), migrateType |-> bytes[c + 25],
         totalLockedAmount |-> U64At(bytes, c + 26), cliffPeriod |-> U64At(bytes, c + 34),
         unlockPeriod |-> U64At(bytes, c + 42)]
LaunchLength(args) ==
    8 + 1 + (4 + Len(Utf8Bytes(args.name))) + (4 + Len(Utf8Bytes(args.symbol)))
    + (4 + Len(Utf8Bytes(args.uri))) + 1 + 24 + 1 + 24
Exchanged(args, f, g) == [args EXCEPT ![f] = args[g], ![g] = args[f]]
SameWidthPairs ==
    { <<"supply", "totalBaseSell">>, <<"totalBaseSell", "totalQuoteFundRaising">>,
      <<"supply", "totalQuoteFundRaising">>, <<"totalLockedAmount", "cliffPeriod">>,
      <<"cliffPeriod", "unlockPeriod">>, <<"totalQuoteFundRaising", "totalLockedAmount">> }

\* C17: a buy or sell payload is 32 bytes, the instruction's 8-byte
\* discriminator followed by amountIn, minimumAmountOut and shareFeeRate as
\* 64-bit little-endian integers, and the reference decoder returns the three
\* values given; a launch payload is the discriminator, decimals, then name,
\* symbol and uri each as a 4-byte length and that many UTF-8 bytes, then the
\* curve and vesting parameters, and decodes to the values given.  A payload
\* built with two fields of the same width exchanged decodes to other values
\* whenever the two fields differ.
C17_PayloadRoundTrip ==
    /\ calc.fn = "encodeSwap" =>
          LET args == calc.input.args
              kind == calc.input.kind
              out == calc.output
          IN  /\ Len(out) = 32
              /\ SubSeq(out, 1, 8) = (IF kind = "buy" THEN buyExactInDiscriminator
                                                     ELSE sellExactInDiscriminator)
              /\ decodeSwap(out) = args
              /\ \A f, g \in DOMAIN args :
                    args[f] # args[g] =>
                        decodeSwap(encodeSwap(kind, Exchanged(args, f, g))) # args
    /\ calc.fn = "encodeLaunch" =>
          LET args == calc.input.args
              out == calc.output
          IN  /\ Len(out) = LaunchLength(args)
              /\ SubSeq(out, 1, 8) = initializeDiscriminator
              /\ decodeLaunch(out) = args
              /\ \A p \in SameWidthPairs :
                    args[p[1]] # args[p[2]] =>
                        decodeLaunch(encodeLaunch(Exchanged(args, p[1], p[2]))) # args

\* A buy payload whose amount needs three bytes and whose minimum needs two.
C17_Witness ==
    /\ calc.fn = "encodeSwap"
    /\ calc.input.kind = "buy"
    /\ calc.input.args.amountIn = 65539
    /\ calc.input.args.minimumAmountOut = 256
    /\ calc.output[9] = 3
    /\ calc.output[11] = 1
    /\ calc.output[18] = 1

\* C18 as stated: calculateSlippageBuy and calculateSlippageSell return
\* e - floor(e * s / 10000), stated through the bounds that define the floor.
IsSlippageCall == calc.fn \in {"calculateSlippageBuy", "calculateSlippageSell"}
C18_ExactHaircut ==
    IsSlippageCall =>
        LET e == calc.input.expectedAmount
            s == calc.input.slippageBps
            cut == e - calc.output
        IN  /\ cut * 10000 <= e * s
            /\ e * s < (cut + 1) * 10000

\* What the tests and the examples of the specification fix: 1,000,000 gives
\* 950,000 at 500 and 900,000 at 1000 basis points, 0 basis points returns the
\* amount itself, and the result lies between 0 and the amount.
SlippageExamples ==
    IsSlippageCall =>
        LET e == calc.input.expectedAmount
            s == calc.input.slippageBps
        IN  /\ calc.output \in 0 .. e
            /\ s = 0 => calc.output = e
            /\ (e = 1000000 /\ s = 500) => calc.output = 950000
            /\ (e = 1000000 /\ s = 1000) => calc.output = 900000

\* C19: a build calls neither send-transaction nor confirm-transaction: what
\* it awaits is the metadata upload, the latest blockhash, the account lookup
\* and the instruction helpers; until the submission is started nothing has
\* been signed, sent or confirmed, and whatever was sent was sent by it.
BuildCalls ==
    {"uploadTokenMetadata", "getLatestBlockhash", "createAnchorInitializeInstruction",
     "getAccountInfo", "createTemporaryWSOLAccount"}
C19_BuildNeverSubmits ==
    /\ \A i \in 1 .. Len(built.calls) :
          /\ built.calls[i] \in BuildCalls
          /\ built.calls[i] \notin {"sendTransaction", "confirmTransaction"}
    /\ pc \in {"idle", "built", "buildFailed"} =>
          (net = NoNet /\ signature = 0 /\ result = NoResult)
    /\ (net.signs > 0 \/ net.sends > 0 \/ net.confirms > 0) =>
          (built.ok /\ variant \in Variants /\ net.attempts > 0)

\* An initialize-and-buy bundle that has been built and not yet executed.
C19_Witness ==
    /\ pc = "built"
    /\ req.op = "initializeAndBuy"
    /\ req.amountIn = 1
    /\ Len(built.calls) >= 5
    /\ sdk.success
    /\ net = NoNet

\* C20: the creator account of the launch instruction that
\* buildInitializeAndBuyTransaction builds is the creator argument of the
\* call, also when it is not the payer.
C20_CreatorHonoured ==
    (built.ok /\ req.op = "initializeAndBuy") =>
        /\ Positions(built.instructions, {"launch"}) # {}
        /\ \A i \in Positions(built.instructions, {"launch"}) :
              built.instructions[i].refs[2] = req.creator

\* The same when the creator is the payer, the only case the code serves.
CreatorIsPayer ==
    (built.ok /\ req.op \in {"create", "initializeAndBuy"}) =>
        \A i \in Positions(built.instructions, {"launch"}) :
            built.instructions[i].refs[2] = "payer"

\* C21: a bundle built while the payer's token account is absent holds
\* exactly one creation instruction for it, before the swap and, in a launch
\* bundle, after the launch; a bundle built while the account exists holds
\* none.
C21_TokenAccountEnsure ==
    built.ok =>
        LET ixs == built.instructions
            create == Positions(ixs, {"createTokenAccount"})
        IN  /\ tokenAccountExists => create = {}
            /\ ~tokenAccountExists =>
                  /\ Cardinality(create) = 1
                  /\ \A c \in create :
                        /\ ixs[c].account = PayerTokenAccount
                        /\ \A i \in 1 .. Len(ixs) :
                              (ixs[i].kind \in {"buy", "sell"}
                               /\ \E k \in 1 .. Len(ixs[i].refs) : ixs[i].refs[k] = PayerTokenAccount)
                              => c < i
                        /\ \A l \in Positions(ixs, {"launch"}) : l < c
            /\ req.op \in {"buy", "sell"} => Positions(ixs, {"buy", "sell"}) # {}

\* An initialize-and-buy bundle with launch, account creation and buy.
C21_Witness ==
    /\ built.ok
    /\ req.op = "initializeAndBuy"
    /\ req.amountIn = 2
    /\ ~tokenAccountExists
    /\ Positions(built.instructions, {"createTokenAccount"}) = {4}
    /\ Positions(built.instructions, {"buy"}) = {8}

\* C22: no step of a submission changes the bundle (instructions with their
\* accounts and payloads, fee payer, signers) or runs a derivation or an
\* encoding; every send was preceded by a signing of the same attempt, at most
\* one send is made per attempt, and a confirmation is asked only for a send
\* that returned a signature.
C22_RetriesDoNotRebuild ==
    /\ [][built' = built /\ req' = req /\ calc' = calc]_vars
    /\ [](/\ built.ok
          /\ calc = NoCalc
          /\ net.signs = net.sends
          /\ net.sends <= net.attempts
          /\ net.confirms <= net.accepted
          /\ pc = "try" => net.sends = net.attempts - 1
          /\ pc = "sent" => (net.sends = net.attempts /\ net.confirms = net.accepted - 1))

\* The third attempt of a versioned submission, two sends behind it.
C22_Witness ==
    /\ pc = "try"
    /\ txKind = "versioned"
    /\ attempt = 3
    /\ net.sends = 2
    /\ built.ok

\* The groups of the general ordering rule, in its order; 0 for an account the
\* rule does not name.
GroupOf(role) ==
    CASE role = "payer" -> 1
      [] role = "authority" -> 2
      [] role \in {"globalConfig", "platformConfig"} -> 3
      [] role = "poolState" -> 4
      [] role \in {"userBaseToken", "userQuoteToken"} -> 5
      [] role \in {"baseVault", "quoteVault"} -> 6
      [] role \in {"baseTokenMint", "quoteTokenMint", "baseMint", "quoteMint"} -> 7
      [] role \in {"baseTokenProgram", "quoteTokenProgram"} -> 8
      [] role \in {"eventAuthority", "program"} -> 9
      [] OTHER -> 0
\* The groups of the launch instruction, in the order of its accounts.
LaunchGroupOf(role) ==
    CASE role = "payer" -> 1
      [] role = "creator" -> 2
      [] role \in {"globalConfig", "platformConfig"} -> 3
      [] role = "authority" -> 4
      [] role = "poolState" -> 5
      [] role \in {"baseMint", "quoteMint"} -> 6
      [] role \in {"baseVault", "quoteVault"} -> 7
      [] role = "metadataAccount" -> 8
      [] role \in {"baseTokenProgram", "quoteTokenProgram"} -> 9
      [] role \in {"metadataProgram", "systemProgram", "rentProgram"} -> 10
      [] role \in {"eventAuthority", "program"} -> 11
      [] OTHER -> 0
IsAccountsCall == calc.fn \in {"accounts", "launchAccounts"}
InGroupOrder(out, group(_)) ==
    /\ \A i \in 1 .. Len(out) : group(out[i].role) > 0
    /\ \A i, j \in 1 .. Len(out) : i < j => group(out[i].role) <= group(out[j].role)
PayerFirstProgramLast(out) ==
    /\ out[1].role = "payer"
    /\ out[Len(out) - 1].role = "eventAuthority"
    /\ out[Len(out)].role = "program"

\* C23 as stated: in the account list of every instruction kind, launch
\* included, the payer is first, the derived authority second, then the
\* configs, the pool state, the user token accounts, the vaults, the mints,
\* the token programs, and last the event authority and the program.
C23_GeneralOrder ==
    IsAccountsCall =>
        /\ PayerFirstProgramLast(calc.output)
        /\ calc.output[2].role = "authority"
        /\ InGroupOrder(calc.output, GroupOf)

\* C23 as amended: in every kind the payer is first and the event authority
\* and the program are last; buy and sell follow the general order; launch
\* lists payer, creator, configs, authority, pool state, mints, vaults,
\* metadata account, token programs, metadata, system and rent programs.
C23_OrderPerKind ==
    IsAccountsCall =>
        /\ PayerFirstProgramLast(calc.output)
        /\ calc.input.kind \in {"buy", "sell"} =>
              (calc.output[2].role = "authority" /\ InGroupOrder(calc.output, GroupOf))
        /\ calc.input.kind = "launch" =>
              /\ Len(calc.output) = 18
              /\ calc.output[2].role = "creator"
              /\ calc.output[5].role = "authority"
              /\ InGroupOrder(calc.output, LaunchGroupOf)

\* A launch account list whose creator is another address than the payer.
C23_Witness ==
    /\ calc.fn = "launchAccounts"
    /\ calc.output[2].role = "creator"
    /\ calc.output[2].pubkey = "other"
    /\ calc.output[1].pubkey = "addr"
    /\ calc.output[7].role = "baseMint"

\* C24: every confirmation wait of a submission, legacy or versioned, on any
\* attempt, is made at the commitment level the SDK is configured with, and
\* at "confirmed" when none is configured.
C24_ConfiguredCommitment ==
    net.confirms > 0 => net.level = ConfiguredCommitment(commitment)

\* C25: the k-th wait of a submission is BASE_DELAY_MS * k and follows failed
\* attempt k < maxRetries; there is no wait before the first attempt, after
\* a successful attempt or after the last failed attempt.
C25_LinearBackoff ==
    /\ \A k \in 1 .. Len(net.waits) : net.waits[k] = BASE_DELAY_MS * k /\ k < maxRetries
    /\ Len(net.waits) = IF pc = "backoff" THEN attempt
                        ELSE IF attempt = 0 THEN 0 ELSE attempt - 1
    /\ pc = "backoff" => caught.attempt = attempt
    /\ pc \in {"confirmed", "failed"} => Len(net.waits) = net.attempts - 1 \/ net.attempts = 0

\* Three attempts failed: two waits were made, none after the third.
C25_Witness ==
    /\ pc = "failed"
    /\ maxRetries = 3
    /\ result.error.attempt = 3
    /\ net.waits = <<BASE_DELAY_MS, 2 * BASE_DELAY_MS>>

\* C26: within one submission at most one send call returns a signature: once
\* a send was accepted no further send is made, whatever the confirmation
\* step then does.
C26_NoResendAfterSend == [][net.accepted >= 1 => net'.sends = net.sends]_vars

\* v mod 2^(8n) as n little-endian bytes, for -256 <= v < 256: the low byte
\* is v mod 256 and every higher byte is 0 for v >= 0 and 255 for v < 0.
WrappedBytes(v, n) == [i \in 1 .. n |-> IF i = 1 THEN v % 256 ELSE IF v < 0 THEN 255 ELSE 0]

\* C27: the first instruction's payload is byte 3 and the 8 little-endian
\* bytes of unitPrice mod 2^64, the second's is byte 2 and the 4 little-endian
\* bytes of unitLimit mod 2^32 (9 and 5 bytes); a negative value is wrapped,
\* not rejected, and a given 0 is encoded as 0, not replaced by the default.
C27_BudgetWidths ==
    built.ok =>
        LET ixs == built.instructions IN
        /\ ixs[1].data = <<3>> \o WrappedBytes(ExpectedUnitPrice, 8)
        /\ ixs[2].data = <<2>> \o WrappedBytes(ExpectedUnitLimit, 4)
        /\ Len(ixs[1].data) = 9
        /\ Len(ixs[2].data) = 5

\* A bundle built with unit price 0 and unit limit -1.
C27_Witness ==
    /\ built.ok
    /\ req.priorityFees = Some([unitPrice |-> Some(0), unitLimit |-> Some(-1)])
    /\ built.instructions[1].data = <<3, 0, 0, 0, 0, 0, 0, 0, 0>>
    /\ built.instructions[2].data = <<2, 255, 255, 255, 255>>

\* The collaborator call each awaited step of a build makes.
CallOf(step) ==
    CASE step = "upload" -> "uploadTokenMetadata"
      [] step = "blockhash" -> "getLatestBlockhash"
      [] step = "launchIx" -> "createAnchorInitializeInstruction"
      [] step = "tokenAccount" -> "getAccountInfo"
      [] step = "wsolAccount" -> "createTemporaryWSOLAccount"

\* C28: a build whose awaited step fails (metadata upload, blockhash fetch,
\* launch-instruction preparation, token-account lookup, temporary-account
\* preparation) throws that step's error right after that call and returns no
\* bundle; a failed upload is thrown before any connection call.
C28_NoPartialBundle ==
    req.op # "none" =>
        /\ ~built.ok => built.instructions = <<>> /\ built.signers = <<>>
        /\ (req.fail \in BuildSteps /\ Called(CallOf(req.fail))) =>
              /\ ~built.ok
              /\ built.error = req.fail
              /\ built.calls[Len(built.calls)] = CallOf(req.fail)
        /\ (~built.ok /\ built.error \in BuildSteps) => built.error = req.fail
        /\ built.error = "upload" => built.calls = <<"uploadTokenMetadata">>

\* An initialize-and-buy whose launch part was prepared and whose temporary
\* account's preparation failed.
C28_Witness ==
    /\ req.op = "initializeAndBuy"
    /\ req.fail = "wsolAccount"
    /\ ~built.ok
    /\ built.error = "wsolAccount"
    /\ Len(built.calls) >= 4
    /\ built.instructions = <<>>

====
